---------------------------- MODULE Spec2Model ----------------------------
(***************************************************************************)
(* CCMemoryEditor: the GameProcess memory engine (core/game_memory.py) and *)
(* the GameProcessMonitor that drives it (gui.py).                         *)
(*                                                                         *)
(* Target memory is a flat byte array cut into regions, as VirtualQueryEx  *)
(* reports them.  Addresses are bytes; the page (chunk_size, 0x1000 in the *)
(* source) and the record layout of config.py (STRUCT_SIZE, PADDING_LENGTH,*)
(* PRECEDING_ZEROES, OFFSETS) are scaled down so that whole address spaces *)
(* can be enumerated.  Python indices are 0-based, sequences here 1-based: *)
(* data[j] of the source is data[j + 1] here.                              *)
(*                                                                         *)
(* An operation's outcome is a record [exc, ret]: exc = "" when it returns *)
(* ret, otherwise the name of the exception it raises.                     *)
(***************************************************************************)
EXTENDS Integers, Sequences, FiniteSets, TLC

VARIABLES
    \* GameProcess and the target process
    pm,              \* GameProcess.pm: None, or the id of the open handle
    open_handles,    \* ids of the OS handles opened by attach and not closed
    handles_opened,  \* how many handles attach has opened so far
    game_running,    \* whether the target process exists
    last_event,      \* the latest attach or close: "none" | "attach_ok" | "attach_fail" | "close"
    regions,         \* the target's regions, ascending: [size, State, Protect, readable, query_ok]
    mem,             \* the target's bytes: address -> 0..255
    max_address,     \* SYSTEM_INFO.lpMaximumApplicationAddress
    fast_scan,       \* config.FAST_SCAN
    offsets,         \* config.OFFSETS, the field descriptor table
    \* one call of get_character_addresses, iteration by iteration
    pc,              \* "idle" | "scan" | "enum" | "done"
    address,         \* the scan cursor of find_first_character_address
    first_address,   \* what find_first_character_address returned
    max_characters,  \* the argument of get_character_addresses
    idx,             \* the loop index i of get_character_addresses
    addresses,       \* the list get_character_addresses builds
    call_result,     \* the outcome of the call
    \* the last GameProcess operation called directly, and its outcome
    last_op,
    last_result,
    mem_touched,     \* whether that operation read or wrote target memory
    min_address,         \* lpMinimumApplicationAddress as a c_void_p: None when it is 0
    \* one call of _matches_pattern
    m_data, m_start, m_pattern, m_result,
    \* GameProcessMonitor (gui.py)
    attached,            \* monitor.attached
    mon_status,          \* monitor.last_status: "" (None) | "attached" | "detached"
    scanner,             \* monitor.scanner: None or the index of a worker
    scanning,            \* monitor.scanning
    scan_complete,       \* monitor.scan_complete
    mon_first_address,   \* monitor.first_character_address
    character_data,      \* monitor.character_data
    apply_enabled,       \* apply_changes_button.isEnabled()
    rescan_enabled,      \* rescan_button.isEnabled()
    timers,              \* QTimer.singleShot(3000, _begin_scan) calls not yet fired
    workers,             \* the CharacterScannerThreads created, each with the locals of
                         \* its get_all_character_data call: [pc, first, idx, addresses,
                         \* data, rec]
    emitted,             \* per worker, the notifications its run has emitted
    signals,             \* notifications queued for the GUI thread
    waiting,             \* the handler blocked in scanner.wait(), "" when none
    window_closed,       \* on_close has run
    app_crashed,         \* NoCrash, or the handler and error that aborted the application
    selected,            \* index of monitor.current_character_name, None when unset
    applies,             \* runs of apply_current_changes that made every write
    applying,            \* the run of apply_current_changes under way: the writes it
                         \* has made and the checkbox's state, NotApplying when none
    scanned_on           \* the threads find_first_character_address has scanned on

gpvars == <<pm, open_handles, handles_opened, game_running, last_event>>
memvars == <<regions, mem, min_address, max_address, fast_scan, offsets>>
callvars == <<pc, address, first_address, max_characters, idx, addresses, call_result>>
opvars == <<last_op, last_result, mem_touched>>
matchvars == <<m_data, m_start, m_pattern, m_result>>
guivars == <<attached, mon_status, scanner, scanning, scan_complete, mon_first_address,
             character_data, apply_enabled, rescan_enabled, timers, workers, emitted,
             signals, waiting, window_closed, app_crashed, selected, applies,
             applying, scanned_on>>
vars == <<gpvars, memvars, callvars, opvars, matchvars, guivars>>

---------------------------------------------------------------------------
(* Constants *)

\* Python's None (a pattern wildcard, "no process", "not found")
None == -1

MEM_COMMIT == 4096
PAGE_READWRITE == 4
PAGE_EXECUTE_READWRITE == 64

\* config.py (scaled down): a record is a flag byte, a byte stat, an int32
\* stat, the eleven byte fields the editor's checkbox and combos write, and
\* PADDING_LENGTH zero bytes
STRUCT_SIZE == 18
PADDING_LENGTH == 1
PRECEDING_ZEROES == 2
FAST_SCAN_START_ADDRESS == 4

\* the page VirtualQueryEx failures advance by (0x1000 in the source, scaled)
chunk_size == 4

\* config.OFFSETS with every field gui.py names; OFFSETS below is its first
\* three entries, the table the codec is exercised on
OFFSETS_GUI ==
    [is_character_unlocked  |-> [offset |-> 0, type |-> "bool"],
     level                  |-> [offset |-> 1, type |-> "byte"],
     xp                     |-> [offset |-> 2, type |-> "int32"],
     insane_mode            |-> [offset |-> 6, type |-> "byte"],
     weapon                 |-> [offset |-> 7, type |-> "byte"],
     animal_type            |-> [offset |-> 8, type |-> "byte"],
     relic_unlocks          |-> [offset |-> 9, type |-> "byte"],
     skull                  |-> [offset |-> 10, type |-> "byte"],
     normal_level_unlocks_0 |-> [offset |-> 11, type |-> "byte"],
     normal_level_unlocks_1 |-> [offset |-> 12, type |-> "byte"],
     normal_level_unlocks_2 |-> [offset |-> 13, type |-> "byte"],
     insane_level_unlocks_0 |-> [offset |-> 14, type |-> "byte"],
     insane_level_unlocks_1 |-> [offset |-> 15, type |-> "byte"],
     insane_level_unlocks_2 |-> [offset |-> 16, type |-> "byte"]]

OFFSETS ==
    [is_character_unlocked |-> [offset |-> 0, type |-> "bool"],
     level                 |-> [offset |-> 1, type |-> "byte"],
     xp                    |-> [offset |-> 2, type |-> "int32"]]

\* a descriptor table with an entry of a type the codec does not implement
OFFSETS_UNSUPPORTED ==
    [is_character_unlocked |-> [offset |-> 0, type |-> "bool"],
     level                 |-> [offset |-> 1, type |-> "byte"],
     xp                    |-> [offset |-> 2, type |-> "int32"],
     gold                  |-> [offset |-> 1, type |-> "float"]]

Returns(v) == [exc |-> "", ret |-> v]
Raises(e) == [exc |-> e, ret |-> None]

---------------------------------------------------------------------------
(* Target memory: what pymem and kernel32 do on it *)

RECURSIVE RegionBase(_, _)
RegionBase(regs, r) == IF r = 1 THEN 0 ELSE RegionBase(regs, r - 1) + regs[r - 1].size

TotalSize(regs) == RegionBase(regs, Len(regs) + 1)

\* the index of the region holding address a, 0 when there is none
RegionAt(regs, a) ==
    LET hit == {r \in 1..Len(regs) :
                    RegionBase(regs, r) <= a /\ a < RegionBase(regs, r) + regs[r].size}
    IN  IF hit = {} THEN 0 ELSE CHOOSE r \in hit : TRUE

\* kernel32.VirtualQueryEx(handle, address, mbi, sizeof(mbi)): 0 on failure,
\* otherwise mbi describes the pages from address to the end of its region
VirtualQueryEx(a) ==
    LET r == RegionAt(regions, a)
    IN  IF r = 0 \/ ~game_running \/ ~regions[r].query_ok
        THEN [ok |-> FALSE, RegionSize |-> 0, State |-> 0, Protect |-> 0]
        ELSE [ok |-> TRUE,
              RegionSize |-> RegionBase(regions, r) + regions[r].size - a,
              State |-> regions[r].State,
              Protect |-> regions[r].Protect]

Readable(a) ==
    LET r == RegionAt(regions, a)
    IN  game_running /\ r # 0 /\ regions[r].State = MEM_COMMIT /\ regions[r].readable

Writable(a) ==
    Readable(a) /\ regions[RegionAt(regions, a)].Protect \in {PAGE_READWRITE, PAGE_EXECUTE_READWRITE}

\* pm.read_bytes(address, n): n bytes, or MemoryReadError when any is unreadable
read_bytes(a, n) ==
    IF \A k \in 0..(n - 1) : Readable(a + k)
    THEN Returns([k \in 1..n |-> mem[a + k - 1]])
    ELSE Raises("MemoryReadError")

\* pm.read_uchar(address)
read_uchar(a) ==
    IF Readable(a) THEN Returns(mem[a]) ELSE Raises("MemoryReadError")

\* memory after pm.write_bytes(address, bytes, n) / pm.write_uchar(address, b)
WriteOk(a, n) == \A k \in 0..(n - 1) : Writable(a + k)

Written(m, a, bytes) ==
    [x \in DOMAIN m |-> IF a <= x /\ x < a + Len(bytes) THEN bytes[x - a + 1] ELSE m[x]]

---------------------------------------------------------------------------
(* GameProcess._matches_pattern *)

\* data[j] of Python: negative j counts from the end
InRange(data, j) == -Len(data) <= j /\ j < Len(data)
PyIndex(data, j) == IF j >= 0 THEN data[j + 1] ELSE data[Len(data) + j + 1]

\* all(b is None or data[start + i] == b for i, b in enumerate(pattern_bytes)):
\* left to right, stopping at the first false
RECURSIVE MatchFrom(_, _, _, _)
MatchFrom(data, start, pattern_bytes_, i) ==
    IF i >= Len(pattern_bytes_) THEN Returns(TRUE)
    ELSE LET b == pattern_bytes_[i + 1]
         IN  IF b = None THEN MatchFrom(data, start, pattern_bytes_, i + 1)
             ELSE IF ~InRange(data, start + i) THEN Raises("IndexError")
             ELSE IF PyIndex(data, start + i) = b
                  THEN MatchFrom(data, start, pattern_bytes_, i + 1)
                  ELSE Returns(FALSE)

\* _matches_pattern comparing from the start of the buffer, whatever start is
_matches_pattern_ignoring_start(data, start, pattern_bytes_) ==
    MatchFrom(data, 0, pattern_bytes_, 0)

_matches_pattern(data, start, pattern_bytes_) == MatchFrom(data, start, pattern_bytes_, 0)

---------------------------------------------------------------------------
(* GameProcess: attach, close, ensure_attached, get_memory_bounds *)

\* ensure_attached raises when "not self.pm"
NotAttached == pm = None

\* get_memory_bounds: (lpMinimumApplicationAddress, lpMaximumApplicationAddress)
get_memory_bounds ==
    IF NotAttached THEN Raises("RuntimeError") ELSE Returns(<<min_address, max_address>>)

---------------------------------------------------------------------------
(* Field codec: read_struct_field, write_struct_field *)

\* the four bytes decoded least significant first
from_bytes_little_signed(raw) ==
    (IF raw[4] >= 128 THEN raw[4] - 256 ELSE raw[4]) * 16777216
        + raw[3] * 65536 + raw[2] * 256 + raw[1]

\* int.from_bytes(raw, "big", signed=True) for 4 bytes
from_bytes_big_signed(raw) ==
    (IF raw[1] >= 128 THEN raw[1] - 256 ELSE raw[1]) * 16777216
        + raw[2] * 65536 + raw[3] * 256 + raw[4]

\* value.to_bytes(4, "big", signed=True): two's complement, most significant first
to_bytes_big_signed(value) ==
    <<(value \div 16777216) % 256, (value \div 65536) % 256,
      (value \div 256) % 256, value % 256>>

\* the bool decoded as "the byte is not zero"
decode_bool_nonzero(byte) == byte # 0

\* self.pm.read_uchar(field_address) == 0x80
decode_bool(byte) == byte = 128

\* read_struct_field(base_address, field_name): [exc, ret, touched], touched
\* telling whether target memory was read
read_struct_field(base_address, field_name) ==
    IF NotAttached THEN [exc |-> "RuntimeError", ret |-> None, touched |-> FALSE]
    ELSE LET field_info == offsets[field_name]
             field_address == base_address + field_info.offset
             field_type == field_info.type
         IN  IF field_type = "byte"
             THEN LET r == read_uchar(field_address)
                  IN  [exc |-> r.exc, ret |-> r.ret, touched |-> TRUE]
             ELSE IF field_type = "bool"
             THEN LET r == read_uchar(field_address)
                  IN  IF r.exc # "" THEN [exc |-> r.exc, ret |-> None, touched |-> TRUE]
                      ELSE [exc |-> "", ret |-> decode_bool(r.ret), touched |-> TRUE]
             ELSE IF field_type = "int32"
             THEN LET r == read_bytes(field_address, 4)
                  IN  IF r.exc # "" THEN [exc |-> r.exc, ret |-> None, touched |-> TRUE]
                      ELSE [exc |-> "", ret |-> from_bytes_big_signed(r.ret), touched |-> TRUE]
             ELSE [exc |-> "ValueError", ret |-> None, touched |-> FALSE]

\* the bytes write_struct_field stores for a value of a supported type
Encoded(field_type, value) ==
    IF field_type = "byte" THEN <<value>>
    ELSE IF field_type = "bool" THEN <<IF value THEN 128 ELSE 0>>
    ELSE to_bytes_big_signed(value)

\* write_struct_field with a final "else" that stores the value as a byte
write_struct_field_storing_unknown_types(base_address, field_name, value) ==
    IF NotAttached THEN [exc |-> "RuntimeError", mem |-> mem, touched |-> FALSE]
    ELSE LET field_info == offsets[field_name]
             field_address == base_address + field_info.offset
             field_type == IF field_info.type \in {"bool", "int32"}
                           THEN field_info.type ELSE "byte"
             bytes == Encoded(field_type, value)
         IN  IF WriteOk(field_address, Len(bytes))
             THEN [exc |-> "", mem |-> Written(mem, field_address, bytes), touched |-> TRUE]
             ELSE [exc |-> "MemoryWriteError", mem |-> mem, touched |-> TRUE]

\* write_struct_field(base_address, field_name, value): [exc, mem, touched],
\* mem the target memory it leaves
write_struct_field(base_address, field_name, value) ==
    IF NotAttached THEN [exc |-> "RuntimeError", mem |-> mem, touched |-> FALSE]
    ELSE LET field_info == offsets[field_name]
             field_address == base_address + field_info.offset
             field_type == field_info.type
         IN  IF field_type \in {"byte", "bool", "int32"}
             THEN LET bytes == Encoded(field_type, value)
                  IN  IF WriteOk(field_address, Len(bytes))
                      THEN [exc |-> "", mem |-> Written(mem, field_address, bytes),
                            touched |-> TRUE]
                      ELSE [exc |-> "MemoryWriteError", mem |-> mem, touched |-> TRUE]
             ELSE [exc |-> "ValueError", mem |-> mem, touched |-> FALSE]

---------------------------------------------------------------------------
(* Record locator: find_first_character_address *)

\* [0x80] + [None] * (STRUCT_SIZE - 1 - PADDING_LENGTH) + [0x00] * PADDING_LENGTH
pattern_bytes ==
    <<128>> \o [k \in 1..(STRUCT_SIZE - 1 - PADDING_LENGTH) |-> None]
            \o [k \in 1..PADDING_LENGTH |-> 0]

\* all(self._matches_pattern(chunk, i + j * STRUCT_SIZE, pattern_bytes) for j in range(4))
FourMatch(chunk, i) ==
    \A j \in 0..3 :
        LET r == _matches_pattern(chunk, i + (j * STRUCT_SIZE), pattern_bytes)
        IN  r.exc = "" /\ r.ret

\* the search without the test of the bytes before i
RECURSIVE SearchFrom_without_zero_run(_, _)
SearchFrom_without_zero_run(chunk, i) ==
    IF i >= Len(chunk) - (STRUCT_SIZE * 4) + 1 THEN None
    ELSE IF FourMatch(chunk, i) THEN i
    ELSE SearchFrom_without_zero_run(chunk, i + 1)

\* for i in range(PRECEDING_ZEROES, len(chunk) - STRUCT_SIZE * 4 + 1): the first
\* i that passes both tests, None when the range is exhausted
RECURSIVE SearchFrom(_, _)
SearchFrom(chunk, i) ==
    IF i >= Len(chunk) - (STRUCT_SIZE * 4) + 1 THEN None
    ELSE IF \E k \in (i - PRECEDING_ZEROES)..(i - 1) : chunk[k + 1] # 0
         THEN SearchFrom(chunk, i + 1)
    ELSE IF FourMatch(chunk, i) THEN i
    ELSE SearchFrom(chunk, i + 1)

Min(a, b) == IF a <= b THEN a ELSE b

\* the address the scan starts at
ScanStart == IF fast_scan THEN FAST_SCAN_START_ADDRESS ELSE 0

\* the rest of an iteration over a qualifying region of the reported size,
\* chunk being what read_bytes gave: the cursor passes the region when the read
\* raised or the search found nothing
ScanChunk(a, RegionSize, chunk) ==
    IF chunk.exc # "" THEN [ret |-> None, next |-> a + RegionSize]
    ELSE LET i == SearchFrom(chunk.ret, PRECEDING_ZEROES)
         IN  IF i # None THEN [ret |-> a + i, next |-> a]
             ELSE [ret |-> None, next |-> a + RegionSize]

\* the iteration leaving the cursor where it is when VirtualQueryEx fails
ScanIter_query_failure_retries(a) ==
    LET mbi == VirtualQueryEx(a)
    IN  IF ~mbi.ok THEN [ret |-> None, next |-> a]
        ELSE IF mbi.State = MEM_COMMIT
                /\ mbi.Protect \in {PAGE_READWRITE, PAGE_EXECUTE_READWRITE}
        THEN CHOOSE it \in
                {ScanChunk(a, mbi.RegionSize, chunk) :
                    chunk \in {read_bytes(a, Min(mbi.RegionSize, max_address - a))}} : TRUE
        ELSE [ret |-> None, next |-> a + mbi.RegionSize]

\* the iteration advancing one page, not the region's size, when the read fails
ScanIter_read_failure_advances_a_page(a) ==
    LET mbi == VirtualQueryEx(a)
    IN  IF ~mbi.ok THEN [ret |-> None, next |-> a + chunk_size]
        ELSE IF mbi.State = MEM_COMMIT
                /\ mbi.Protect \in {PAGE_READWRITE, PAGE_EXECUTE_READWRITE}
        THEN CHOOSE it \in
                {IF chunk.exc # "" THEN [ret |-> None, next |-> a + chunk_size]
                 ELSE ScanChunk(a, mbi.RegionSize, chunk) :
                    chunk \in {read_bytes(a, Min(mbi.RegionSize, max_address - a))}} : TRUE
        ELSE [ret |-> None, next |-> a + mbi.RegionSize]

\* one iteration of "while address < max_address" at cursor a: ret is the
\* address returned (None: no return), next the cursor it leaves.  The bytes
\* are read once, read_size = min(mbi.RegionSize, max_address - address)
ScanIter(a) ==
    LET mbi == VirtualQueryEx(a)
    IN  IF ~mbi.ok THEN [ret |-> None, next |-> a + chunk_size]
        ELSE IF mbi.State = MEM_COMMIT
                /\ mbi.Protect \in {PAGE_READWRITE, PAGE_EXECUTE_READWRITE}
        THEN CHOOSE it \in
                {ScanChunk(a, mbi.RegionSize, chunk) :
                    chunk \in {read_bytes(a, Min(mbi.RegionSize, max_address - a))}} : TRUE
        ELSE [ret |-> None, next |-> a + mbi.RegionSize]

RECURSIVE ScanLoop(_)
ScanLoop(a) ==
    IF a >= max_address THEN None
    ELSE LET it == ScanIter(a)
         IN  IF it.ret # None THEN it.ret ELSE ScanLoop(it.next)

find_first_character_address ==
    IF NotAttached THEN Raises("RuntimeError") ELSE Returns(ScanLoop(ScanStart))

---------------------------------------------------------------------------
(* Record enumerator: get_character_addresses and the readers built on it *)

\* the loop body with "continue" where the source has "break"
EnumIter_continue_on_invalid(first, i, acc) ==
    LET a == first + (i * STRUCT_SIZE)
        first_byte == read_uchar(a)
    IN  IF first_byte.exc # "" THEN [kind |-> "raise", exc |-> first_byte.exc, acc |-> acc]
        ELSE IF first_byte.ret \notin {0, 128} THEN [kind |-> "append", exc |-> "", acc |-> acc]
        ELSE [kind |-> "append", exc |-> "", acc |-> Append(acc, a)]

\* one iteration of "for i in range(max_characters)": read the flag byte at
\* first_address + i * STRUCT_SIZE, break when it is neither 0x00 nor 0x80
EnumIter(first, i, acc) ==
    LET a == first + (i * STRUCT_SIZE)
        first_byte == read_uchar(a)
    IN  IF first_byte.exc # "" THEN [kind |-> "raise", exc |-> first_byte.exc, acc |-> acc]
        ELSE IF first_byte.ret \notin {0, 128} THEN [kind |-> "break", exc |-> "", acc |-> acc]
        ELSE [kind |-> "append", exc |-> "", acc |-> Append(acc, a)]

RECURSIVE EnumLoop(_, _, _, _)
EnumLoop(first, i, max, acc) ==
    IF i >= max THEN Returns(acc)
    ELSE LET it == EnumIter(first, i, acc)
         IN  IF it.kind = "raise" THEN Raises(it.exc)
             ELSE IF it.kind = "break" THEN Returns(acc)
             ELSE EnumLoop(first, i + 1, max, it.acc)

\* get_character_addresses after find_first_character_address returned first
AddressesFrom(first, max) ==
    IF first = None THEN Returns(<<>>) ELSE EnumLoop(first, 0, max, <<>>)

get_character_addresses(max) ==
    IF NotAttached THEN Raises("RuntimeError")
    ELSE AddressesFrom(find_first_character_address.ret, max)

\* the order of the keys of OFFSETS
FieldOrder ==
    <<"is_character_unlocked", "level", "xp", "gold", "insane_mode", "weapon",
      "animal_type", "relic_unlocks", "skull", "normal_level_unlocks_0",
      "normal_level_unlocks_1", "normal_level_unlocks_2", "insane_level_unlocks_0",
      "insane_level_unlocks_1", "insane_level_unlocks_2">>

\* get_character_data(base_address): every field of OFFSETS read in turn; the
\* first read that raises ends it
get_character_data(base_address) ==
    IF NotAttached THEN Raises("RuntimeError")
    ELSE LET fields == DOMAIN offsets
             failed == {k \in 1..Len(FieldOrder) :
                            /\ FieldOrder[k] \in fields
                            /\ read_struct_field(base_address, FieldOrder[k]).exc # ""}
         IN  IF failed # {}
             THEN Raises(read_struct_field(base_address,
                      FieldOrder[CHOOSE k \in failed : \A l \in failed : k <= l]).exc)
             ELSE Returns([f \in fields |-> read_struct_field(base_address, f).ret])

\* [self.get_character_data(address) for address in list]
CharacterDataList(list) ==
    IF list.exc # "" THEN Raises(list.exc)
    ELSE LET failed == {k \in 1..Len(list.ret) : get_character_data(list.ret[k]).exc # ""}
         IN  IF failed # {}
             THEN Raises(get_character_data(
                      list.ret[CHOOSE k \in failed : \A l \in failed : k <= l]).exc)
             ELSE Returns([k \in 1..Len(list.ret) |-> get_character_data(list.ret[k]).ret])

get_all_character_data(max) ==
    IF NotAttached THEN Raises("RuntimeError")
    ELSE CharacterDataList(get_character_addresses(max))

---------------------------------------------------------------------------
(* Inputs *)

MaxData == 3        \* longest buffer given to _matches_pattern
MaxPat == 2         \* longest pattern given to _matches_pattern
MaxShift == 2       \* most bytes before a record table in its region
MaxCut == 1         \* how far below the end of memory max_address may lie
MaxChars == 6       \* largest max_characters

ByteVals == {0, 128, 66}

SeqsUpTo(S, n) == UNION {[1..k -> S] : k \in 0..n}

Pending == [exc |-> "pending", ret |-> None]

GPIdle ==
    /\ pm = None /\ open_handles = {} /\ handles_opened = 0 /\ game_running = TRUE
    /\ last_event = "none"

GPAttached ==
    /\ pm = 1 /\ open_handles = {1} /\ handles_opened = 1 /\ game_running = TRUE
    /\ last_event = "attach_ok"

MemIdle ==
    /\ regions = <<>> /\ mem = <<>> /\ min_address = None /\ max_address = 0
    /\ fast_scan = FALSE /\ offsets = OFFSETS

CallIdle ==
    /\ pc = "idle" /\ address = 0 /\ first_address = None /\ max_characters = 0
    /\ idx = 0 /\ addresses = <<>> /\ call_result = Pending

NoOp == [name |-> "none", base |-> 0, field |-> "", value |-> 0]

OpIdle == last_op = NoOp /\ last_result = Pending /\ mem_touched = FALSE

MatchIdle == m_data = <<>> /\ m_start = 0 /\ m_pattern = <<>> /\ m_result = Pending

\* the application has not been aborted
NoCrash == [handler |-> "", exc |-> ""]

\* an error nothing catches leaves handler: the application is aborted
Crash(handler, exc) == [handler |-> handler, exc |-> exc]

\* apply_current_changes is not executing
NotApplying == [done |-> 0, checked |-> FALSE]

\* GameProcessMonitor.__init__
GuiIdle ==
    /\ attached = FALSE /\ mon_status = "" /\ scanner = None /\ scanning = FALSE
    /\ scan_complete = FALSE /\ mon_first_address = None /\ character_data = <<>>
    /\ apply_enabled = FALSE /\ rescan_enabled = FALSE /\ timers = 0
    /\ workers = <<>> /\ emitted = <<>> /\ signals = <<>> /\ waiting = ""
    /\ window_closed = FALSE /\ app_crashed = NoCrash
    /\ selected = None /\ applies = 0 /\ applying = NotApplying /\ scanned_on = {}

\* the kinds of region VirtualQueryEx reports: committed read-write and
\* execute-read-write, committed but failing to read, read-only, reserved,
\* and a range it cannot describe
RegionKinds ==
    {[State |-> MEM_COMMIT, Protect |-> PAGE_READWRITE, readable |-> TRUE, query_ok |-> TRUE],
     [State |-> MEM_COMMIT, Protect |-> PAGE_EXECUTE_READWRITE, readable |-> TRUE, query_ok |-> TRUE],
     [State |-> MEM_COMMIT, Protect |-> PAGE_READWRITE, readable |-> FALSE, query_ok |-> TRUE],
     [State |-> MEM_COMMIT, Protect |-> 2, readable |-> TRUE, query_ok |-> TRUE],
     [State |-> 8192, Protect |-> 0, readable |-> FALSE, query_ok |-> TRUE],
     [State |-> 0, Protect |-> 0, readable |-> FALSE, query_ok |-> FALSE]}

Region(kind, size) ==
    [size |-> size, State |-> kind.State, Protect |-> kind.Protect,
     readable |-> kind.readable, query_ok |-> kind.query_ok]

TableLen == PRECEDING_ZEROES + (4 * STRUCT_SIZE)

\* a region holds whole pages: enough of them for a table after MaxShift bytes
BigSize == chunk_size * ((TableLen + MaxShift + chunk_size - 1) \div chunk_size)

\* shift bytes of junk, PRECEDING_ZEROES zeros, four records that match the
\* signature (wildcards filled with 0x42), junk to the end of the region
TableAt(shift, junk, size) ==
    [k \in 1..size |->
        LET o == k - 1 - shift - PRECEDING_ZEROES     \* offset into the four records
        IN  IF k <= shift \/ o >= 4 * STRUCT_SIZE THEN junk
            ELSE IF o < 0 THEN 0
            ELSE IF o % STRUCT_SIZE = 0 THEN 128
            ELSE IF o % STRUCT_SIZE >= STRUCT_SIZE - PADDING_LENGTH THEN 0
            ELSE 66]

Tables(size) == {TableAt(s, j, size) : s \in 0..MaxShift, j \in {0, 66}}

\* every table, and every table with one byte changed
NearTables(size) ==
    {[t EXCEPT ![p] = b] : t \in Tables(size), p \in 1..size, b \in ByteVals}

\* the tables, and regions of one repeated byte
PlainContents(size) == Tables(size) \cup {[k \in 1..size |-> b] : b \in {0, 66}}

\* one region of any near-table, or two regions of plain contents
Layouts ==
    {<<[kind |-> k, data |-> d]>> : k \in RegionKinds, d \in NearTables(BigSize)}
    \cup {<<[kind |-> k1, data |-> d1], [kind |-> k2, data |-> d2]>> :
            k1 \in RegionKinds, k2 \in RegionKinds,
            d1 \in PlainContents(BigSize), d2 \in PlainContents(BigSize)}

TwoRegionLayouts == {l \in Layouts : Len(l) = 2}

RECURSIVE Flat(_)
Flat(layout) == IF layout = <<>> THEN <<>> ELSE Head(layout).data \o Flat(Tail(layout))

\* target memory laid out as layout, max_address cut bytes below its end
MemWith(layout, cut, fast, table) ==
    /\ regions = [r \in 1..Len(layout) |-> Region(layout[r].kind, Len(layout[r].data))]
    /\ mem = [a \in 0..(Len(Flat(layout)) - 1) |-> Flat(layout)[a + 1]]
    /\ min_address = None
    /\ max_address = Len(Flat(layout)) - cut
    /\ fast_scan = fast
    /\ offsets = table

MemIs(layout, cut, fast) == MemWith(layout, cut, fast, OFFSETS)

---------------------------------------------------------------------------
(* _matches_pattern, called on its own *)

InitMatch ==
    /\ GPIdle /\ MemIdle /\ CallIdle /\ OpIdle /\ GuiIdle
    /\ m_data \in SeqsUpTo(ByteVals, MaxData)
    /\ m_start \in (-1)..MaxData
    /\ m_pattern \in SeqsUpTo({None, 0, 128}, MaxPat)
    /\ m_result = Pending

MatchCall ==
    /\ m_result = Pending
    /\ m_result' = _matches_pattern(m_data, m_start, m_pattern)
    /\ UNCHANGED <<gpvars, memvars, callvars, opvars, m_data, m_start, m_pattern, guivars>>

NextMatch == MatchCall

SpecMatch == InitMatch /\ [][NextMatch]_vars

---------------------------------------------------------------------------
(* find_first_character_address, one loop iteration at a time *)

InitScan ==
    /\ GPAttached /\ CallIdle /\ OpIdle /\ MatchIdle /\ GuiIdle
    /\ \E layout \in Layouts, cut \in 0..MaxCut, fast \in BOOLEAN : MemIs(layout, cut, fast)

\* the call: ensure_attached, the pattern, the start address, the bounds
FindCall ==
    /\ pc = "idle"
    /\ ~NotAttached
    /\ pc' = "scan"
    /\ address' = ScanStart
    /\ UNCHANGED <<gpvars, memvars, first_address, max_characters, idx, addresses,
                   call_result, opvars, matchvars, guivars>>

\* an iteration that ends with "continue" or falls through to "address += ..."
ScanAdvance ==
    /\ pc = "scan"
    /\ address < max_address
    /\ ScanIter(address).ret = None
    /\ address' = ScanIter(address).next
    /\ UNCHANGED <<gpvars, memvars, pc, first_address, max_characters, idx, addresses,
                   call_result, opvars, matchvars, guivars>>

\* an iteration that ends with "return address + i"
ScanFound ==
    /\ pc = "scan"
    /\ address < max_address
    /\ ScanIter(address).ret # None
    /\ first_address' = ScanIter(address).ret
    /\ call_result' = Returns(ScanIter(address).ret)
    /\ pc' = "done"
    /\ UNCHANGED <<gpvars, memvars, address, max_characters, idx, addresses,
                   opvars, matchvars, guivars>>

\* the loop ends: "return None"
ScanExhausted ==
    /\ pc = "scan"
    /\ address >= max_address
    /\ first_address' = None
    /\ call_result' = Returns(None)
    /\ pc' = "done"
    /\ UNCHANGED <<gpvars, memvars, address, max_characters, idx, addresses,
                   opvars, matchvars, guivars>>

NextScan == FindCall \/ ScanAdvance \/ ScanFound \/ ScanExhausted

SpecScan == InitScan /\ [][NextScan]_vars

\* layouts for the loop's progress: up to three regions of every kind, each
\* holding a table or none
ProgressLayouts ==
    LET parts == {[kind |-> k, data |-> d] :
                    k \in RegionKinds,
                    d \in {TableAt(0, 66, BigSize), [b \in 1..BigSize |-> 66]}}
    IN  {<<p>> : p \in parts}
        \cup {<<p, q>> : p \in parts, q \in parts}
        \cup {<<p, q, [kind |-> k, data |-> [b \in 1..BigSize |-> 66]]>> :
                p \in parts, q \in parts, k \in RegionKinds}

InitScanLive ==
    /\ GPAttached /\ CallIdle /\ OpIdle /\ MatchIdle /\ GuiIdle
    /\ \E layout \in ProgressLayouts, cut \in 0..MaxCut, fast \in BOOLEAN :
          MemIs(layout, cut, fast)

\* the call runs on one thread that keeps executing: an iteration that can be
\* taken is taken
SpecScanLive == InitScanLive /\ [][NextScan]_vars /\ WF_vars(NextScan)

---------------------------------------------------------------------------
(* Claims on the matcher and the locator *)

\* the window of the pattern lies inside the buffer
InWindow == m_start >= 0 /\ m_start + Len(m_pattern) <= Len(m_data)

\* C2: _matches_pattern(data, start, pattern) returns true iff every position k
\* of the pattern that is not a wildcard has data[start + k] = pattern[k] (for
\* a window inside the buffer), and returns true for a pattern of wildcards
\* only, whatever the buffer and the start.
C2_MatchesIffEveryFixedByteEqual ==
    m_result # Pending =>
        /\ InWindow =>
              /\ m_result.exc = ""
              /\ m_result.ret =
                    (\A k \in 1..Len(m_pattern) :
                        m_pattern[k] # None => m_data[m_start + k] = m_pattern[k])
        /\ (\A k \in 1..Len(m_pattern) : m_pattern[k] = None) =>
              m_result.exc = "" /\ m_result.ret

\* a match at a nonzero start of a pattern with a wildcard over a byte that a
\* fixed position would reject
C2_Witness ==
    /\ m_result # Pending /\ InWindow
    /\ m_start = 1 /\ m_pattern = <<None, 128>> /\ m_data = <<0, 66, 128>>
    /\ m_result.exc = "" /\ m_result.ret

\* the part of region r the scan reads: from the start address, below max_address
ChunkStart(r) ==
    IF RegionBase(regions, r) >= ScanStart THEN RegionBase(regions, r) ELSE ScanStart

ChunkEnd(r) == Min(RegionBase(regions, r) + regions[r].size, max_address)

\* region r is scanned: committed, read-write or execute-read-write, readable
Qualifies(r) ==
    /\ ChunkStart(r) < ChunkEnd(r)
    /\ regions[r].query_ok
    /\ regions[r].State = MEM_COMMIT
    /\ regions[r].Protect \in {PAGE_READWRITE, PAGE_EXECUTE_READWRITE}
    /\ regions[r].readable
    /\ game_running

\* a is the address of four records in a row after PRECEDING_ZEROES zero bytes,
\* all inside the part of region r that is read
TableStartsAt(r, a) ==
    /\ ChunkStart(r) + PRECEDING_ZEROES <= a
    /\ a + (4 * STRUCT_SIZE) <= ChunkEnd(r)
    /\ \A z \in 1..PRECEDING_ZEROES : mem[a - z] = 0
    /\ \A j \in 0..3 :
          /\ mem[a + (j * STRUCT_SIZE)] = 128
          /\ \A q \in 1..PADDING_LENGTH : mem[a + (j * STRUCT_SIZE) + STRUCT_SIZE - q] = 0

TableAddresses ==
    {a \in DOMAIN mem : \E r \in 1..Len(regions) : Qualifies(r) /\ TableStartsAt(r, a)}

\* C1: find_first_character_address returns the lowest address, over the
\* qualifying regions in ascending order and the offsets ascending within a
\* region, at which four signature windows follow PRECEDING_ZEROES zero bytes,
\* and None exactly when there is no such address.
C1_FirstTableAddress ==
    pc = "done" =>
        /\ call_result.exc = ""
        /\ call_result.ret = first_address
        /\ IF TableAddresses = {} THEN first_address = None
           ELSE /\ first_address \in TableAddresses
                /\ \A a \in TableAddresses : first_address <= a

\* the table found in the second of two regions, after a first region that
\* holds a table too but does not qualify
C1_Witness ==
    /\ pc = "done"
    /\ Len(regions) = 2
    /\ ~Qualifies(1)
    /\ \E a \in DOMAIN mem : TableStartsAt(1, a)
    /\ first_address = regions[1].size + 1 + PRECEDING_ZEROES

\* the read of the region at cursor a fails: VirtualQueryEx describes a committed
\* read-write or execute-read-write region and read_bytes raises MemoryReadError
ReadFailsAt(a) ==
    LET mbi == VirtualQueryEx(a)
    IN  /\ mbi.ok
        /\ mbi.State = MEM_COMMIT
        /\ mbi.Protect \in {PAGE_READWRITE, PAGE_EXECUTE_READWRITE}
        /\ read_bytes(a, Min(mbi.RegionSize, max_address - a)).exc # ""

\* region r would be scanned but cannot be read
Unreadable(r) ==
    /\ ChunkStart(r) < ChunkEnd(r)
    /\ regions[r].query_ok
    /\ regions[r].State = MEM_COMMIT
    /\ regions[r].Protect \in {PAGE_READWRITE, PAGE_EXECUTE_READWRITE}
    /\ ~regions[r].readable

\* C11: when the read of a qualifying region fails the scan is not aborted:
\* the iteration leaves the loop running with the cursor advanced by exactly
\* the size VirtualQueryEx reported, and the call ends with the result of the
\* scan over the regions that can be read (the lowest table address among
\* them, None when they hold none)
C11_ReadFailureSkipsRegion ==
    [][/\ (pc = "scan" /\ address < max_address /\ ReadFailsAt(address)) =>
              /\ pc' = "scan"
              /\ address' = address + VirtualQueryEx(address).RegionSize
              /\ call_result' = Pending
       /\ (pc = "scan" /\ pc' = "done" /\ \E r \in 1..Len(regions) : Unreadable(r)) =>
              /\ call_result'.exc = ""
              /\ IF TableAddresses = {} THEN call_result'.ret = None
                 ELSE /\ call_result'.ret \in TableAddresses
                      /\ \A a \in TableAddresses : call_result'.ret <= a]_vars

\* the scan has passed a first region whose read failed, although it holds a
\* table, and returned the table of the second region
C11_Witness ==
    /\ pc = "done"
    /\ Len(regions) = 2
    /\ Unreadable(1)
    /\ \E a \in DOMAIN mem : TableStartsAt(1, a)
    /\ call_result.exc = ""
    /\ call_result.ret # None
    /\ call_result.ret >= regions[1].size

\* C12: find_first_character_address always terminates: an iteration that does
\* not return strictly increases the cursor, by chunk_size when VirtualQueryEx
\* fails and by the reported region size otherwise; with the cursor at or
\* beyond max_address the loop ends; and every call reaches its return
C12_ScanTerminates ==
    /\ [][(pc = "scan" /\ pc' = "scan") =>
              /\ address < max_address
              /\ address' > address
              /\ address' = IF VirtualQueryEx(address).ok
                            THEN address + VirtualQueryEx(address).RegionSize
                            ELSE address + chunk_size]_vars
    /\ [][(pc = "scan" /\ address >= max_address) => pc' = "done"]_vars
    /\ <>(pc = "done")

\* a scan that met a region VirtualQueryEx cannot describe and a region whose
\* read fails has run to the end of memory and returned None
C12_Witness ==
    /\ pc = "done"
    /\ call_result = Returns(None)
    /\ address >= max_address
    /\ \E r \in 1..Len(regions) : ~regions[r].query_ok /\ ChunkStart(r) < ChunkEnd(r)
    /\ \E r \in 1..Len(regions) : Unreadable(r)

---------------------------------------------------------------------------
(* get_character_addresses, one loop iteration at a time *)

InitEnum ==
    /\ GPAttached /\ CallIdle /\ OpIdle /\ MatchIdle /\ GuiIdle
    /\ \E layout \in TwoRegionLayouts : MemIs(layout, 0, FALSE)

\* the call up to the loop: ensure_attached, find_first_character_address,
\* "return []" when it found nothing
EnumCall ==
    /\ pc = "idle"
    /\ ~NotAttached
    /\ \E max \in 0..MaxChars :
          /\ max_characters' = max
          /\ first_address' = find_first_character_address.ret
          /\ IF find_first_character_address.ret = None
             THEN pc' = "done" /\ call_result' = Returns(<<>>)
             ELSE pc' = "enum" /\ call_result' = call_result
          /\ idx' = 0
          /\ addresses' = <<>>
    /\ UNCHANGED <<gpvars, memvars, address, opvars, matchvars, guivars>>

\* an iteration that appends the address
EnumAppend ==
    /\ pc = "enum"
    /\ idx < max_characters
    /\ EnumIter(first_address, idx, addresses).kind = "append"
    /\ addresses' = EnumIter(first_address, idx, addresses).acc
    /\ idx' = idx + 1
    /\ UNCHANGED <<gpvars, memvars, pc, address, first_address, max_characters,
                   call_result, opvars, matchvars, guivars>>

\* an iteration that breaks on a flag byte that is neither 0x00 nor 0x80
EnumBreak ==
    /\ pc = "enum"
    /\ idx < max_characters
    /\ EnumIter(first_address, idx, addresses).kind = "break"
    /\ pc' = "done"
    /\ call_result' = Returns(addresses)
    /\ UNCHANGED <<gpvars, memvars, address, first_address, max_characters, idx,
                   addresses, opvars, matchvars, guivars>>

\* an iteration whose read_uchar raises
EnumRaise ==
    /\ pc = "enum"
    /\ idx < max_characters
    /\ EnumIter(first_address, idx, addresses).kind = "raise"
    /\ pc' = "done"
    /\ call_result' = Raises(EnumIter(first_address, idx, addresses).exc)
    /\ UNCHANGED <<gpvars, memvars, address, first_address, max_characters, idx,
                   addresses, opvars, matchvars, guivars>>

\* the range is exhausted: "return addresses"
EnumEnd ==
    /\ pc = "enum"
    /\ idx >= max_characters
    /\ pc' = "done"
    /\ call_result' = Returns(addresses)
    /\ UNCHANGED <<gpvars, memvars, address, first_address, max_characters, idx,
                   addresses, opvars, matchvars, guivars>>

NextEnum == EnumCall \/ EnumAppend \/ EnumBreak \/ EnumRaise \/ EnumEnd

SpecEnum == InitEnum /\ [][NextEnum]_vars

\* the indices below max_characters whose flag byte is neither 0x00 nor 0x80
InvalidFlags ==
    {k \in 0..(max_characters - 1) :
        \/ first_address + (k * STRUCT_SIZE) \notin DOMAIN mem
        \/ mem[first_address + (k * STRUCT_SIZE)] \notin {0, 128}}

FirstInvalid ==
    IF InvalidFlags = {} THEN max_characters
    ELSE CHOOSE k \in InvalidFlags : \A l \in InvalidFlags : k <= l

\* C5: when the locator finds F, get_character_addresses(max_count) returns
\* exactly F + i * STRUCT_SIZE for i = 0..n-1 in ascending order, n the smaller
\* of max_count and the lowest index whose flag byte is neither 0x00 nor 0x80.
C5_AddressesUpToFirstInvalidFlag ==
    (pc = "done" /\ first_address # None /\ call_result.exc = "") =>
        /\ first_address = find_first_character_address.ret
        /\ call_result.ret =
              [i \in 1..FirstInvalid |-> first_address + ((i - 1) * STRUCT_SIZE)]

\* index 4 holds an invalid flag, index 5 a valid one that can be read, and
\* max_characters reaches beyond both: four addresses are returned
C5_Witness ==
    /\ pc = "done" /\ first_address # None /\ call_result.exc = ""
    /\ max_characters = 6
    /\ mem[first_address + (4 * STRUCT_SIZE)] = 66
    /\ Readable(first_address + (5 * STRUCT_SIZE))
    /\ mem[first_address + (5 * STRUCT_SIZE)] \in {0, 128}
    /\ Len(call_result.ret) = 4

---------------------------------------------------------------------------
(* GameProcess, called operation by operation *)

MaxHandles == 2     \* most handles attach opens in one run

\* values written to a field of each type
ByteSamples == {1, 66, 128, 255}
Int32Samples == {-2147483647 - 1, -2, 16909060, 2147483647}
ValuesFor(field_type) ==
    IF field_type = "bool" THEN BOOLEAN
    ELSE IF field_type = "int32" THEN Int32Samples
    ELSE IF field_type = "byte" THEN ByteSamples
    ELSE {66}

\* base addresses given to the field operations: the flag of the record read
\* at base 2 is the byte field of the record written at base 1
WriteBases == {1}
ReadBases == {1, 2}

\* eight zero bytes of committed read-write memory
SmallMem ==
    /\ regions = <<Region([State |-> MEM_COMMIT, Protect |-> PAGE_READWRITE,
                           readable |-> TRUE, query_ok |-> TRUE], 2 * chunk_size)>>
    /\ mem = [a \in 0..((2 * chunk_size) - 1) |-> 0]
    /\ min_address \in {None, chunk_size}
    /\ max_address = 2 * chunk_size
    /\ fast_scan = FALSE

Op(name, base, field, value) == [name |-> name, base |-> base, field |-> field, value |-> value]

\* the application has neither been closed nor aborted
AppRuns == ~window_closed /\ app_crashed = NoCrash

\* the target process starts or exits while the application runs
GameStarts ==
    /\ AppRuns
    /\ ~game_running
    /\ game_running' = TRUE
    /\ UNCHANGED <<pm, open_handles, handles_opened, last_event, memvars, callvars,
                   opvars, matchvars, guivars>>

GameExits ==
    /\ AppRuns
    /\ game_running
    /\ game_running' = FALSE
    /\ UNCHANGED <<pm, open_handles, handles_opened, last_event, memvars, callvars,
                   opvars, matchvars, guivars>>

\* attach() whose pymem.Pymem(process_name) raises: pm is left as it was
AttachFail_keeping_pm ==
    /\ ~game_running
    /\ pm' = pm
    /\ last_event' = "attach_fail"
    /\ last_op' = Op("attach", 0, "", 0)
    /\ last_result' = Returns(FALSE)
    /\ mem_touched' = FALSE
    /\ UNCHANGED <<open_handles, handles_opened, game_running, memvars, callvars, matchvars, guivars>>

\* attach(): pymem.Pymem(process_name) opens a handle, self.pm holds it
AttachOk ==
    /\ game_running
    /\ handles_opened < MaxHandles
    /\ handles_opened' = handles_opened + 1
    /\ pm' = handles_opened + 1
    /\ open_handles' = open_handles \cup {handles_opened + 1}
    /\ last_event' = "attach_ok"
    /\ last_op' = Op("attach", 0, "", 0)
    /\ last_result' = Returns(TRUE)
    /\ mem_touched' = FALSE
    /\ UNCHANGED <<game_running, memvars, callvars, matchvars, guivars>>

\* attach(): pymem.Pymem(process_name) raises, self.pm = None
AttachFail ==
    /\ ~game_running
    /\ pm' = None
    /\ last_event' = "attach_fail"
    /\ last_op' = Op("attach", 0, "", 0)
    /\ last_result' = Returns(FALSE)
    /\ mem_touched' = FALSE
    /\ UNCHANGED <<open_handles, handles_opened, game_running, memvars, callvars, matchvars, guivars>>

\* close(): close_process() on the handle, if any, and self.pm = None
Close ==
    /\ open_handles' = IF pm # None THEN open_handles \ {pm} ELSE open_handles
    /\ pm' = None
    /\ last_event' = "close"
    /\ last_op' = Op("close", 0, "", 0)
    /\ last_result' = Returns(None)
    /\ mem_touched' = FALSE
    /\ UNCHANGED <<handles_opened, game_running, memvars, callvars, matchvars, guivars>>

ReadField(fields) ==
    \E base \in ReadBases, field \in fields :
        /\ last_op' = Op("read_struct_field", base, field, 0)
        /\ last_result' = [exc |-> read_struct_field(base, field).exc,
                           ret |-> read_struct_field(base, field).ret]
        /\ mem_touched' = read_struct_field(base, field).touched
        /\ UNCHANGED <<gpvars, memvars, callvars, matchvars, guivars>>

WriteField(fields) ==
    \E base \in WriteBases, field \in fields :
        \E value \in ValuesFor(offsets[field].type) :
            /\ last_op' = Op("write_struct_field", base, field, value)
            /\ last_result' = [exc |-> write_struct_field(base, field, value).exc,
                               ret |-> None]
            /\ mem_touched' = write_struct_field(base, field, value).touched
            /\ mem' = write_struct_field(base, field, value).mem
            /\ UNCHANGED <<gpvars, regions, min_address, max_address, fast_scan, offsets,
                           callvars, matchvars, guivars>>

\* the operations that only read: the outcome of one call
Outcome(name, base, max) ==
    IF name = "get_memory_bounds" THEN get_memory_bounds
    ELSE IF name = "find_first_character_address" THEN find_first_character_address
    ELSE IF name = "get_character_data" THEN get_character_data(base)
    ELSE IF name = "get_character_addresses" THEN get_character_addresses(max)
    ELSE get_all_character_data(max)

ReadingOps ==
    {"get_memory_bounds", "find_first_character_address", "get_character_data",
     "get_character_addresses", "get_all_character_data"}

\* the scan from cursor a reaches a read_bytes call: VirtualQueryEx describes a
\* committed read-write or execute-read-write region at some cursor
\* the loop of find_first_character_address with its cursor at a reaches a
\* read_bytes call: a region VirtualQueryEx describes as committed and
\* read-write; until then it only queries and advances
RECURSIVE ScanReads(_)
ScanReads(a) ==
    IF a >= max_address THEN FALSE
    ELSE LET mbi == VirtualQueryEx(a)
         IN  IF mbi.ok /\ mbi.State = MEM_COMMIT
                /\ mbi.Protect \in {PAGE_READWRITE, PAGE_EXECUTE_READWRITE}
             THEN TRUE
             ELSE ScanReads(ScanIter(a).next)

\* operation name makes a read call on the target: the locator reaches
\* read_bytes (the enumerator and the readers read only after it found a
\* table), get_character_data reaches the read of a field
Touches(name, base) ==
    IF NotAttached \/ name = "get_memory_bounds" THEN FALSE
    ELSE IF name = "get_character_data"
    THEN \E k \in 1..Len(FieldOrder) :
            /\ FieldOrder[k] \in DOMAIN offsets
            /\ read_struct_field(base, FieldOrder[k]).touched
            /\ \A l \in 1..(k - 1) :
                  FieldOrder[l] \in DOMAIN offsets =>
                      read_struct_field(base, FieldOrder[l]).exc = ""
    ELSE ScanReads(ScanStart)

CallReadingOp ==
    \E name \in ReadingOps, base \in ReadBases :
        /\ last_op' = Op(name, base, "", 1)
        /\ last_result' = Outcome(name, base, 1)
        /\ mem_touched' = Touches(name, base)
        /\ UNCHANGED <<gpvars, memvars, callvars, matchvars, guivars>>

\* the field codec on an attached GameProcess
InitCodec ==
    /\ GPAttached /\ CallIdle /\ OpIdle /\ MatchIdle /\ GuiIdle
    /\ SmallMem
    /\ offsets \in {OFFSETS, OFFSETS_UNSUPPORTED}

NextCodec == ReadField(DOMAIN offsets) \/ WriteField(DOMAIN offsets)

SpecCodec == InitCodec /\ [][NextCodec]_vars

\* attach, close and every operation, in any order
InitHandle ==
    /\ GPIdle /\ CallIdle /\ OpIdle /\ MatchIdle /\ GuiIdle
    /\ SmallMem
    /\ offsets = OFFSETS

NextHandle ==
    \/ GameStarts \/ GameExits \/ AttachOk \/ AttachFail \/ Close
    \/ ReadField({"is_character_unlocked", "level"})
    \/ WriteField({"is_character_unlocked"})
    \/ CallReadingOp

SpecHandle == InitHandle /\ [][NextHandle]_vars

---------------------------------------------------------------------------
(* Claims on the field codec and on attachment *)

FieldAddress(op) == op.base + offsets[op.field].offset
FieldType(op) == offsets[op.field].type

\* byte k (0 the most significant) of the 32-bit two's complement of v
TwosComplementByte(v, k) ==
    LET p == IF k = 0 THEN 16777216 ELSE IF k = 1 THEN 65536 ELSE IF k = 2 THEN 256 ELSE 1
    IN  IF v >= 0 THEN (v \div p) % 256
        ELSE 255 - (((-(v + 1)) \div p) % 256)

\* C3: a value written with write_struct_field and read back at once from the
\* same field at the same base address is returned unchanged, for byte, bool
\* and int32 fields, and an int32 lies in memory as four bytes of two's
\* complement, the most significant at the lowest address.
C3_RoundTrip ==
    [][(/\ last_op.name = "write_struct_field"
        /\ last_result.exc = ""
        /\ last_op'.name = "read_struct_field"
        /\ last_op'.base = last_op.base
        /\ last_op'.field = last_op.field)
       => /\ last_result'.exc = ""
          /\ last_result'.ret = last_op.value
          /\ FieldType(last_op) = "int32" =>
                \A k \in 0..3 :
                    mem[FieldAddress(last_op) + k] = TwosComplementByte(last_op.value, k)]_vars

\* a negative int32 whose bytes differ read back at the base it was written at
C3_Witness ==
    /\ last_op.name = "read_struct_field" /\ last_op.field = "xp" /\ last_op.base = 1
    /\ last_result.exc = "" /\ last_result.ret = -2
    /\ mem[3] = 255 /\ mem[6] = 254

\* C4: a bool field reads true iff the stored byte is exactly 0x80, and
\* write_struct_field stores 0x80 for true and 0x00 for false.
C4_BoolIsExactly0x80 ==
    /\ (/\ last_op.name = "read_struct_field" /\ FieldType(last_op) = "bool"
        /\ last_result.exc = "")
       => last_result.ret = (mem[FieldAddress(last_op)] = 128)
    /\ (/\ last_op.name = "write_struct_field" /\ FieldType(last_op) = "bool"
        /\ last_result.exc = "")
       => mem[FieldAddress(last_op)] = (IF last_op.value THEN 128 ELSE 0)

\* a bool field read over a stored 0x01 decodes to false
C4_Witness ==
    /\ last_op.name = "read_struct_field" /\ FieldType(last_op) = "bool"
    /\ mem[FieldAddress(last_op)] = 1
    /\ last_result.exc = "" /\ last_result.ret = FALSE

\* C10: on a field whose type is none of byte, bool, int32, read_struct_field
\* and write_struct_field raise the unsupported-type error without touching
\* target memory, and write_struct_field leaves every byte unchanged.
C10_UnsupportedTypeRaises ==
    [][(/\ last_op'.name \in {"read_struct_field", "write_struct_field"}
        /\ FieldType(last_op') \notin {"byte", "bool", "int32"})
       => /\ last_result'.exc = "ValueError"
          /\ ~mem_touched'
          /\ mem' = mem]_vars

\* a write to the unsupported field was refused while memory held written data
C10_Witness ==
    /\ last_op.name = "write_struct_field" /\ last_op.field = "gold"
    /\ last_result.exc = "ValueError"
    /\ mem[2] = 66

CoreOps ==
    ReadingOps \cup {"read_struct_field", "write_struct_field"}

\* C6: an operation raises the not-attached error, without reading or writing
\* target memory, exactly when the latest attach or close was a close or a
\* failed attach or there was none; after a later successful attach it does
\* not.
C6_NotAttachedIffNoLiveAttach ==
    last_op.name \in CoreOps =>
        /\ (last_result.exc = "RuntimeError") <=>
              (last_event \in {"none", "attach_fail", "close"})
        /\ last_result.exc = "RuntimeError" => ~mem_touched

\* an operation succeeds on the second handle, opened after the first was closed
C6_Witness ==
    /\ last_op.name = "read_struct_field"
    /\ last_result.exc = ""
    /\ last_event = "attach_ok"
    /\ handles_opened = 2 /\ open_handles = {2} /\ pm = 2


---------------------------------------------------------------------------
(* GameProcessMonitor and CharacterScannerThread: the polling timer, the
   delayed start of a scan, the worker's run and the delivery of its
   notifications to the GUI thread *)

MaxWorkers == 2     \* most CharacterScannerThread objects created

\* the GUI thread is free to run a handler
GuiReady == ~window_closed /\ app_crashed = NoCrash /\ waiting = ""

\* QThread.isRunning() of worker w
Running(w) == workers[w].pc # "done"

\* stop_scanner reaches self.scanner.wait() with the worker still in run()
StopBlocks == scanner # None /\ Running(scanner)

UNCHANGED_core ==
    UNCHANGED <<memvars, callvars, opvars, matchvars, selected, applies, applying>>

\* check_process, GameProcess.attach() returned True: the first success after a
\* disconnect marks the monitor attached and calls start_scan, which refuses
\* when self.scanner is set and otherwise schedules _begin_scan in 3000 ms
CheckProcessAttached ==
    /\ GuiReady
    /\ game_running
    /\ handles_opened < MaxHandles
    /\ handles_opened' = handles_opened + 1
    /\ pm' = handles_opened + 1
    /\ open_handles' = open_handles \cup {handles_opened + 1}
    /\ last_event' = "attach_ok"
    /\ IF ~attached
       THEN /\ attached' = TRUE
            /\ mon_status' = "attached"
            /\ IF scanner # None
               THEN UNCHANGED <<scanning, apply_enabled, rescan_enabled, timers>>
               ELSE /\ scanning' = TRUE
                    /\ apply_enabled' = FALSE
                    /\ rescan_enabled' = FALSE
                    /\ timers' = timers + 1
       ELSE UNCHANGED <<attached, mon_status, scanning, apply_enabled, rescan_enabled, timers>>
    /\ UNCHANGED <<game_running, scanner, scan_complete, mon_first_address, character_data,
                   workers, emitted, signals, waiting, window_closed, app_crashed>>
    /\ UNCHANGED_core /\ UNCHANGED scanned_on

\* check_process, GameProcess.attach() returned False (it has set pm to None):
\* unless the last status was "detached" the monitor clears attached and
\* first_character_address, calls stop_scanner and disables both buttons
CheckProcessDetached ==
    /\ GuiReady
    /\ ~game_running
    /\ pm' = None
    /\ last_event' = "attach_fail"
    /\ IF mon_status # "detached"
       THEN /\ attached' = FALSE
            /\ mon_first_address' = None
            /\ IF StopBlocks
               THEN /\ waiting' = "check_process"
                    /\ UNCHANGED <<scanner, apply_enabled, rescan_enabled, mon_status>>
               ELSE /\ scanner' = None
                    /\ apply_enabled' = FALSE
                    /\ rescan_enabled' = FALSE
                    /\ mon_status' = "detached"
                    /\ UNCHANGED waiting
       ELSE UNCHANGED <<attached, mon_first_address, waiting, scanner, apply_enabled,
                        rescan_enabled, mon_status>>
    /\ UNCHANGED <<open_handles, handles_opened, game_running, scanning, scan_complete,
                   character_data, timers, workers, emitted, signals, window_closed,
                   app_crashed>>
    /\ UNCHANGED_core /\ UNCHANGED scanned_on

\* check_process after scanner.wait() returned: the rest of the detached branch
CheckProcessResumes ==
    /\ waiting = "check_process"
    /\ app_crashed = NoCrash
    /\ ~Running(scanner)
    /\ scanner' = None
    /\ apply_enabled' = FALSE
    /\ rescan_enabled' = FALSE
    /\ mon_status' = "detached"
    /\ waiting' = ""
    /\ UNCHANGED <<gpvars, attached, scanning, scan_complete, mon_first_address,
                   character_data, timers, workers, emitted, signals, window_closed,
                   app_crashed>>
    /\ UNCHANGED_core /\ UNCHANGED scanned_on

\* a CharacterScannerThread whose run() has not begun
NewWorker ==
    [pc |-> "start", first |-> None, idx |-> 0, addresses |-> <<>>, data |-> <<>>,
     rec |-> <<>>]

\* worker w once get_all_character_data has returned or raised: the locals of
\* the call are gone, and what is left of run() is its last emit
Leaving(w) ==
    [workers[w] EXCEPT !.pc = "leaving", !.first = None, !.idx = 0, !.addresses = <<>>,
                       !.data = <<>>, !.rec = <<>>]

\* _begin_scan: self.scanner = CharacterScannerThread(...); start().  Rebinding
\* self.scanner drops the only reference to the previous QThread; destroying a
\* QThread that is still running aborts the application
_begin_scan ==
    /\ Len(workers) < MaxWorkers
    /\ workers' = Append(workers, NewWorker)
    /\ emitted' = Append(emitted, <<>>)
    /\ scanner' = Len(workers) + 1
    /\ app_crashed' = IF StopBlocks THEN Crash("_begin_scan", "QThread destroyed while running")
                     ELSE NoCrash

\* the QTimer.singleShot(3000, self._begin_scan) of start_scan fires
DelayedStart ==
    /\ GuiReady
    /\ timers > 0
    /\ timers' = timers - 1
    /\ _begin_scan
    /\ UNCHANGED <<gpvars, attached, mon_status, scanning, scan_complete, mon_first_address,
                   character_data, apply_enabled, rescan_enabled, signals, waiting,
                   window_closed>>
    /\ UNCHANGED_core /\ UNCHANGED scanned_on

\* rescan_button.clicked: lambda: monitor._begin_scan()
RescanClicked ==
    /\ GuiReady
    /\ rescan_enabled
    /\ _begin_scan
    /\ UNCHANGED <<gpvars, attached, mon_status, scanning, scan_complete, mon_first_address,
                   character_data, apply_enabled, rescan_enabled, timers, signals, waiting,
                   window_closed>>
    /\ UNCHANGED_core /\ UNCHANGED scanned_on

\* a notification leaves worker w: it is recorded and queued for the GUI thread
Emit(w, kind, data) ==
    /\ emitted' = [emitted EXCEPT ![w] = Append(@, kind)]
    /\ signals' = Append(signals, [w |-> w, kind |-> kind, data |-> data])

\* run() without its "except Exception" clause: the exception leaves run()
OnException_uncaught(w, e) ==
    /\ workers' = [workers EXCEPT ![w] = Leaving(w)]
    /\ UNCHANGED <<emitted, signals>>

\* run(), "except Exception as e": the error status is emitted; the emit
\* returns with the thread still in run()
OnException(w, e) ==
    /\ workers' = [workers EXCEPT ![w] = Leaving(w)]
    /\ Emit(w, "error", <<>>)

UNCHANGED_monitor ==
    UNCHANGED <<attached, mon_status, scanner, scanning, scan_complete, mon_first_address,
                character_data, apply_enabled, rescan_enabled, timers, waiting,
                window_closed, app_crashed>>

\* run(): status_update.emit("Scanning memory for character structs...")
WorkerEmitsStatus ==
    \E w \in 1..Len(workers) :
        /\ app_crashed = NoCrash /\ ~window_closed
        /\ workers[w].pc = "start"
        /\ workers' = [workers EXCEPT ![w].pc = "scan"]
        /\ Emit(w, "status", <<>>)
        /\ UNCHANGED gpvars /\ UNCHANGED_monitor /\ UNCHANGED_core /\ UNCHANGED scanned_on

\* run(): get_all_character_data as far as find_first_character_address
\* returning: with no address get_character_addresses returns [] at once
WorkerFinds ==
    \E w \in 1..Len(workers) :
        /\ app_crashed = NoCrash /\ ~window_closed
        /\ workers[w].pc = "scan"
        /\ find_first_character_address.exc = ""
        /\ workers' = [workers EXCEPT ![w].first = find_first_character_address.ret,
                                      ![w].pc = IF find_first_character_address.ret = None
                                                THEN "fields" ELSE "flags"]
        /\ UNCHANGED <<gpvars, emitted, signals>> /\ UNCHANGED_monitor /\ UNCHANGED_core
        /\ scanned_on' = scanned_on \cup {"worker"}

\* run(): ensure_attached raises because the monitor's attach() has set pm to None
WorkerFindRaises ==
    \E w \in 1..Len(workers) :
        /\ app_crashed = NoCrash /\ ~window_closed
        /\ workers[w].pc = "scan"
        /\ find_first_character_address.exc # ""
        /\ OnException(w, find_first_character_address.exc)
        /\ UNCHANGED gpvars /\ UNCHANGED_monitor /\ UNCHANGED_core /\ UNCHANGED scanned_on

\* run(), in get_character_addresses: one iteration of the loop, the
\* self.pm.read_uchar of one flag byte; with pm set to None meanwhile the
\* attribute lookup raises
WorkerReadsFlag ==
    \E w \in 1..Len(workers) :
        /\ app_crashed = NoCrash /\ ~window_closed
        /\ workers[w].pc = "flags"
        /\ LET it == EnumIter(workers[w].first, workers[w].idx, workers[w].addresses)
           IN  IF NotAttached
               THEN OnException(w, "AttributeError")
               ELSE IF it.kind = "raise"
               THEN OnException(w, it.exc)
               ELSE /\ workers' =
                         [workers EXCEPT ![w].addresses = it.acc,
                                         ![w].idx = IF it.kind = "break" THEN @ ELSE @ + 1,
                                         ![w].pc = IF \/ it.kind = "break"
                                                      \/ workers[w].idx + 1 >= MaxChars
                                                   THEN "fields" ELSE "flags"]
                    /\ UNCHANGED <<emitted, signals>>
        /\ UNCHANGED gpvars /\ UNCHANGED_monitor /\ UNCHANGED_core /\ UNCHANGED scanned_on

\* the keys of OFFSETS in the order get_character_data reads them
WorkerFields == SelectSeq(FieldOrder, LAMBDA f : f \in DOMAIN offsets)

\* the dictionary get_character_data builds from the values read, in that order
RecordOf(rec) ==
    [f \in DOMAIN offsets |->
        rec[CHOOSE k \in 1..Len(WorkerFields) : WorkerFields[k] = f]]

\* run(), in get_character_data: one read_struct_field call, the next field of
\* the next address; the record joins the list when its last field is read
WorkerReadsField ==
    \E w \in 1..Len(workers) :
        /\ app_crashed = NoCrash /\ ~window_closed
        /\ workers[w].pc = "fields"
        /\ Len(workers[w].data) < Len(workers[w].addresses)
        /\ LET base_address == workers[w].addresses[Len(workers[w].data) + 1]
               field_name == WorkerFields[Len(workers[w].rec) + 1]
               r == read_struct_field(base_address, field_name)
               rec == Append(workers[w].rec, r.ret)
           IN  IF r.exc # ""
               THEN OnException(w, r.exc)
               ELSE /\ workers' =
                         IF Len(rec) = Len(WorkerFields)
                         THEN [workers EXCEPT ![w].data = Append(@, RecordOf(rec)),
                                              ![w].rec = <<>>]
                         ELSE [workers EXCEPT ![w].rec = rec]
                    /\ UNCHANGED <<emitted, signals>>
        /\ UNCHANGED gpvars /\ UNCHANGED_monitor /\ UNCHANGED_core /\ UNCHANGED scanned_on

\* run(): every record is read and scan_finished.emit(data) queues the list
\* for the GUI thread; the emit returns with the thread still in run()
WorkerFinishes ==
    \E w \in 1..Len(workers) :
        /\ app_crashed = NoCrash /\ ~window_closed
        /\ workers[w].pc = "fields"
        /\ Len(workers[w].data) = Len(workers[w].addresses)
        /\ workers' = [workers EXCEPT ![w] = Leaving(w)]
        /\ Emit(w, "finished", workers[w].data)
        /\ UNCHANGED gpvars /\ UNCHANGED_monitor /\ UNCHANGED_core /\ UNCHANGED scanned_on

\* run() returns and the thread ends: isRunning() is False from here on
WorkerReturns ==
    \E w \in 1..Len(workers) :
        /\ app_crashed = NoCrash /\ ~window_closed
        /\ workers[w].pc = "leaving"
        /\ workers' = [workers EXCEPT ![w].pc = "done"]
        /\ UNCHANGED <<gpvars, emitted, signals>>
        /\ UNCHANGED_monitor /\ UNCHANGED_core /\ UNCHANGED scanned_on

\* status_update delivered to append_status: a line of the status box
DeliverStatus ==
    /\ GuiReady
    /\ signals # <<>>
    /\ Head(signals).kind \in {"status", "error"}
    /\ signals' = Tail(signals)
    /\ UNCHANGED <<gpvars, workers, emitted>> /\ UNCHANGED_monitor /\ UNCHANGED_core /\ UNCHANGED scanned_on

\* scan_finished delivered to populate_character_fields: it stores the data,
\* calls find_first_character_address on the GUI thread, marks the scan
\* complete, enables the buttons and calls stop_scanner.  An exception raised
\* in the slot is unhandled and aborts the application
populate_character_fields ==
    /\ GuiReady
    /\ signals # <<>>
    /\ Head(signals).kind = "finished"
    /\ signals' = Tail(signals)
    /\ character_data' = Head(signals).data
    /\ IF find_first_character_address.exc # ""
       THEN /\ app_crashed' = Crash("populate_character_fields",
                                   find_first_character_address.exc)
            /\ UNCHANGED <<mon_first_address, scan_complete, scanning, apply_enabled,
                           rescan_enabled, scanner, waiting>>
       ELSE /\ mon_first_address' = find_first_character_address.ret
            /\ scan_complete' = TRUE
            /\ scanning' = FALSE
            /\ apply_enabled' = attached
            /\ rescan_enabled' = TRUE
            /\ IF StopBlocks
               THEN waiting' = "populate_character_fields" /\ UNCHANGED scanner
               ELSE scanner' = None /\ UNCHANGED waiting
            /\ UNCHANGED app_crashed
    /\ UNCHANGED <<gpvars, attached, mon_status, timers, workers, emitted, window_closed>>
    /\ UNCHANGED_core
    /\ scanned_on' = IF find_first_character_address.exc # "" THEN scanned_on
                   ELSE scanned_on \cup {"gui"}

\* populate_character_fields after scanner.wait() returned
PopulateResumes ==
    /\ waiting = "populate_character_fields"
    /\ app_crashed = NoCrash
    /\ ~Running(scanner)
    /\ scanner' = None
    /\ waiting' = ""
    /\ UNCHANGED <<gpvars, attached, mon_status, scanning, scan_complete, mon_first_address,
                   character_data, apply_enabled, rescan_enabled, timers, workers, emitted,
                   signals, window_closed, app_crashed>>
    /\ UNCHANGED_core /\ UNCHANGED scanned_on

\* CHARACTERS[name]["id"] - 1 for two of the characters of the list: the
\* first, and one beyond the four records of the model's tables
CHARACTER_INDICES == {0, 4}

MaxApplies == 1     \* most runs of apply_current_changes that write

\* on_character_selected: populate_character_ui stores the name and, when the
\* index lies within character_data, shows the record's values
on_character_selected ==
    /\ GuiReady
    /\ \E i \in CHARACTER_INDICES : selected # i /\ selected' = i
    /\ UNCHANGED <<gpvars, memvars, callvars, opvars, matchvars, applies, applying,
                   scanned_on>>
    /\ UNCHANGED <<workers, emitted, signals>> /\ UNCHANGED_monitor

\* config.NORMAL_LEVEL_UNLOCKS_FLAT / INSANE_LEVEL_UNLOCKS_FLAT (scaled down):
\* (label, (byte_index, value)) entries, one for each of the three bytes
LEVEL_UNLOCKS_FLAT ==
    <<<<"none", <<0, 0>>>>, <<"a", <<0, 1>>>>, <<"b", <<1, 1>>>>, <<"c", <<2, 1>>>>>>

\* flat_to_bytes(flat_list, index) of apply_current_changes: the entry's value
\* in its byte, 0xFF in the bytes below it, zeros for an index out of range
flat_to_bytes(flat_list, index) ==
    IF ~(0 <= index /\ index < Len(flat_list)) THEN <<0, 0, 0>>
    ELSE LET byte_index == flat_list[index + 1][2][1]
             value == flat_list[index + 1][2][2]
             b0 == IF byte_index = 0 THEN value ELSE 0
             b1 == IF byte_index = 1 THEN value ELSE 0
             b2 == IF byte_index = 2 THEN value ELSE 0
         IN  IF b2 # 0 THEN <<255, 255, b2>>
             ELSE IF b1 # 0 THEN <<255, b1, b2>>
             ELSE <<b0, b1, b2>>

\* the fields apply_current_changes writes, in the order of its
\* write_struct_field calls: the two checkboxes, the four combos, the six
\* level-unlock bytes, the stats
ApplyFields ==
    <<"is_character_unlocked", "insane_mode", "weapon", "animal_type", "relic_unlocks",
      "skull", "normal_level_unlocks_0", "normal_level_unlocks_1",
      "normal_level_unlocks_2", "insane_level_unlocks_0", "insane_level_unlocks_1",
      "insane_level_unlocks_2", "level", "xp">>

\* the value the widgets give for the k-th of them: the character checkbox as
\* the user left it, the insane-mode checkbox unchecked, every combo's
\* currentData 0, the normal unlocks combo at index 1 and the insane one at
\* index 0, the level spinbox at 10 and the xp spinbox at -2
ApplyValue(k, checked) ==
    IF k = 1 THEN checked
    ELSE IF k = 2 THEN 0
    ELSE IF k <= 6 THEN 0
    ELSE IF k <= 9 THEN flat_to_bytes(LEVEL_UNLOCKS_FLAT, 1)[k - 6]
    ELSE IF k <= 12 THEN flat_to_bytes(LEVEL_UNLOCKS_FLAT, 0)[k - 9]
    ELSE IF k = 13 THEN 10 - 1
    ELSE (-2)

\* the k-th write_struct_field call of apply_current_changes and the statement
\* after it.  An error of the call leaves the handler, nothing catching it; a
\* level-unlock byte or a stat written is stored in character_memory_block,
\* the record of character_data, which the checkboxes' and the combos' values
\* are not; after the last write the handler reports and returns
ApplyWrite(k, checked) ==
    LET base_address == mon_first_address + (selected * STRUCT_SIZE)
        field_name == ApplyFields[k]
        value == ApplyValue(k, checked)
        w == IF field_name \in DOMAIN offsets
             THEN write_struct_field(base_address, field_name, value)
             ELSE [exc |-> "KeyError", mem |-> mem, touched |-> FALSE]
    IN  /\ mem' = w.mem
        /\ IF w.exc # ""
           THEN /\ app_crashed' = Crash("apply_current_changes", w.exc)
                /\ applying' = NotApplying
                /\ waiting' = ""
                /\ UNCHANGED <<character_data, applies>>
           ELSE /\ character_data' =
                     IF k <= 6 THEN character_data
                     ELSE [character_data EXCEPT ![selected + 1][field_name] = value]
                /\ IF k = Len(ApplyFields)
                   THEN /\ applies' = applies + 1
                        /\ applying' = NotApplying
                        /\ waiting' = ""
                   ELSE /\ applying' = [done |-> k, checked |-> checked]
                        /\ waiting' = "apply_current_changes"
                        /\ UNCHANGED applies
                /\ UNCHANGED app_crashed

UNCHANGED_apply ==
    /\ UNCHANGED <<gpvars, regions, min_address, max_address, fast_scan, offsets,
                   callvars, opvars, matchvars, selected, scanned_on>>
    /\ UNCHANGED <<attached, mon_status, scanner, scanning, scan_complete,
                   mon_first_address, apply_enabled, rescan_enabled, timers, workers,
                   emitted, signals, window_closed>>

\* apply_changes_button.clicked -> apply_current_changes, up to its first
\* write_struct_field call: a status line when no character is selected or no
\* base address is known; else the record is taken from character_data, which
\* raises IndexError when the index lies beyond it, and the checkbox is written
apply_current_changes ==
    /\ GuiReady
    /\ apply_enabled
    /\ applies < MaxApplies
    /\ IF selected = None \/ mon_first_address = None \/ mon_first_address = 0
       THEN UNCHANGED <<mem, character_data, app_crashed, applies, applying, waiting>>
       ELSE IF selected >= Len(character_data)
       THEN /\ app_crashed' = Crash("apply_current_changes", "IndexError")
            /\ UNCHANGED <<mem, character_data, applies, applying, waiting>>
       ELSE \E checked \in BOOLEAN : ApplyWrite(1, checked)
    /\ UNCHANGED_apply

\* apply_current_changes goes on: its next write_struct_field call.  The
\* handler occupies the GUI thread between its calls, while the game and the
\* scan worker run on
ApplyContinues ==
    /\ waiting = "apply_current_changes"
    /\ app_crashed = NoCrash
    /\ ApplyWrite(applying.done + 1, applying.checked)
    /\ UNCHANGED_apply

\* on_close: monitor.stop_scanner(); monitor.timer.stop(); event.accept()
on_close ==
    /\ GuiReady
    /\ IF StopBlocks
       THEN waiting' = "on_close" /\ UNCHANGED <<scanner, window_closed>>
       ELSE scanner' = None /\ window_closed' = TRUE /\ UNCHANGED waiting
    /\ UNCHANGED <<gpvars, attached, mon_status, scanning, scan_complete, mon_first_address,
                   character_data, apply_enabled, rescan_enabled, timers, workers, emitted,
                   signals, app_crashed>>
    /\ UNCHANGED_core /\ UNCHANGED scanned_on

\* on_close after scanner.wait() returned
CloseResumes ==
    /\ waiting = "on_close"
    /\ app_crashed = NoCrash
    /\ ~Running(scanner)
    /\ scanner' = None
    /\ window_closed' = TRUE
    /\ waiting' = ""
    /\ UNCHANGED <<gpvars, attached, mon_status, scanning, scan_complete, mon_first_address,
                   character_data, apply_enabled, rescan_enabled, timers, workers, emitted,
                   signals, app_crashed>>
    /\ UNCHANGED_core /\ UNCHANGED scanned_on

\* a region of the game holding its record table: PRECEDING_ZEROES zeros, four
\* unlocked records (the stats 0x42 bytes, the checkbox, combo and level-unlock
\* bytes zero), junk to the end of the region
GameTable(size) ==
    [k \in 1..size |->
        LET o == k - 1 - PRECEDING_ZEROES
        IN  IF o >= 4 * STRUCT_SIZE THEN 66
            ELSE IF o < 0 THEN 0
            ELSE IF o % STRUCT_SIZE = 0 THEN 128
            ELSE IF o % STRUCT_SIZE < OFFSETS_GUI.insane_mode.offset THEN 66
            ELSE 0]

\* the game's memory while it runs: a record table, or no table at all
GameLayouts ==
    {<<[kind |-> [State |-> MEM_COMMIT, Protect |-> PAGE_READWRITE,
                  readable |-> TRUE, query_ok |-> TRUE],
        data |-> d]>> : d \in {GameTable(BigSize), [k \in 1..BigSize |-> 66]}}

InitGui ==
    /\ GPIdle /\ CallIdle /\ OpIdle /\ MatchIdle /\ GuiIdle
    /\ \E layout \in GameLayouts : MemWith(layout, 0, FALSE, OFFSETS_GUI)

NextGui ==
    \/ GameStarts \/ GameExits
    \/ CheckProcessAttached \/ CheckProcessDetached \/ CheckProcessResumes
    \/ DelayedStart \/ RescanClicked
    \/ WorkerEmitsStatus \/ WorkerFinds \/ WorkerFindRaises
    \/ WorkerReadsFlag \/ WorkerReadsField \/ WorkerFinishes \/ WorkerReturns
    \/ DeliverStatus \/ populate_character_fields \/ PopulateResumes
    \/ on_close \/ CloseResumes
    \/ on_character_selected \/ apply_current_changes \/ ApplyContinues

SpecGui == InitGui /\ [][NextGui]_vars

\* the monitor and its scan workers while the user selects and edits nothing
NextRun ==
    \/ GameStarts \/ GameExits
    \/ CheckProcessAttached \/ CheckProcessDetached \/ CheckProcessResumes
    \/ DelayedStart \/ RescanClicked
    \/ WorkerEmitsStatus \/ WorkerFinds \/ WorkerFindRaises
    \/ WorkerReadsFlag \/ WorkerReadsField \/ WorkerFinishes \/ WorkerReturns
    \/ DeliverStatus \/ populate_character_fields \/ PopulateResumes
    \/ on_close \/ CloseResumes

SpecRun == InitGui /\ [][NextRun]_vars

\* the workers whose run() has not returned
RunningWorkers == {w \in 1..Len(workers) : Running(w)}

\* the terminal notifications among those a worker emitted
Terminals(w) == {k \in 1..Len(emitted[w]) : emitted[w][k] \in {"finished", "error"}}

\* C7: a scan request made while a scan is pending or in flight does not start
\* a second CharacterScannerThread: whenever a worker is created, no other
\* worker is still running and no other delayed start is still scheduled
C7_NoSecondWorker ==
    [][Len(workers') > Len(workers) => (RunningWorkers = {} /\ timers' = 0)]_vars

\* C8: every run of the scan worker emits the scanning status first and then
\* exactly one terminal notification, scan_finished or the error status: a
\* worker that has not reached the end of run() has emitted no terminal
\* notification, and one that has (whether or not the thread has ended yet)
\* has emitted the status followed by exactly one of the two
C8_StatusThenOneTerminal ==
    \A w \in 1..Len(workers) :
        /\ workers[w].pc = "start" => emitted[w] = <<>>
        /\ workers[w].pc \in {"scan", "flags", "fields"} => emitted[w] = <<"status">>
        /\ workers[w].pc \in {"leaving", "done"} =>
              emitted[w] \in {<<"status", "finished">>, <<"status", "error">>}

\* one run ended with scan_finished and another with the error status
C8_Witness ==
    \E v, w \in 1..Len(workers) :
        /\ workers[v].pc = "done" /\ emitted[v] = <<"status", "finished">>
        /\ workers[w].pc = "done" /\ emitted[w] = <<"status", "error">>

\* C9: once the monitor has handled a disconnect or the window has closed, no
\* scan worker is running (none was left running and none has started since),
\* and no worker is running once the monitor's attach() has dropped the handle
C9_NoWorkerOutlivesSession ==
    /\ (waiting = "" /\ (~attached \/ window_closed)) => RunningWorkers = {}
    /\ (pm = None /\ waiting = "") => RunningWorkers = {}


\* C13: no error propagates uncaught out of a handler of the interactive path
\* (check_process, populate_character_fields, apply_current_changes): none of
\* them aborts the application
C13_NoUncaughtError ==
    app_crashed.handler \notin
        {"check_process", "populate_character_fields", "apply_current_changes"}


\* a scan is in progress: a delayed start is scheduled, a worker is in run(),
\* or a scan_finished has not been handled yet
ScanInProgress ==
    \/ timers > 0
    \/ RunningWorkers # {}
    \/ \E k \in 1..Len(signals) : signals[k].kind = "finished"

\* C14: no edit is applied while a scan is in progress: a run of
\* apply_current_changes that writes to the game happens only with no scan
\* requested, running or awaiting populate_character_fields
C14_NoApplyDuringScan ==
    [][applies' > applies => ~ScanInProgress]_vars

\* C15: find_first_character_address executes only on the scan worker, never
\* in a handler of the interactive path
C15_ScanOnlyOnWorker ==
    scanned_on \subseteq {"worker"}


\* C16: at most one handle opened by the GameProcess is open at any time, it
\* is the one self.pm holds, and after close() none remains open
C16_AtMostOneOpenHandle ==
    /\ Cardinality(open_handles) <= 1
    /\ open_handles \subseteq {pm}
    /\ last_event = "close" => open_handles = {}

====
